---------------------------- MODULE Spec2Model ----------------------------
(***************************************************************************)
(* A model of the TypeScript compile pipeline of BinaryRest/Rest:          *)
(*   Source/Fn/SWC.rs                main, Compiler, CompilerMetrics       *)
(*   Source/Fn/SWC/Watch.rs          Watch::Fn, the watch loop             *)
(*   Source/Fn/SWC/Watch/Compile.rs  Compile::Fn, dispatch and collect     *)
(* Strings are TLA+ strings; Len, \o and SubSeq act on them as on          *)
(* sequences of characters.                                                *)
(***************************************************************************)
EXTENDS Integers, Sequences, FiniteSets, TLC

(***************************************************************************)
(* Bounds of the model.                                                    *)
(***************************************************************************)
\* the longest options.entry list handed to a directly called Compile::Fn
MaxEntries == 3
\* the longest options.entry list drawn for the entry resolver alone
MaxResolve == 2
\* the number of notifications the watcher delivers in one behaviour
MaxEvents == 2
\* the longest options.entry list of a direct call checked for termination
MaxLiveEntries == 2
\* model time units taken by the timed steps of one job
ParseTime == 2
EmitTime == 4
WriteTime == 8

(***************************************************************************)
(* Strings and paths.                                                      *)
(***************************************************************************)
\* str::ends_with
EndsWith(s, p) ==
    IF Len(p) = 0 THEN TRUE
    ELSE Len(p) <= Len(s) /\ SubSeq(s, Len(s) - Len(p) + 1, Len(s)) = p

\* str::starts_with
StartsWith(s, p) ==
    IF Len(p) = 0 THEN TRUE
    ELSE Len(p) <= Len(s) /\ SubSeq(s, 1, Len(p)) = p

\* the characters of s from position i to the end
Tail_(s, i) == IF i > Len(s) THEN "" ELSE SubSeq(s, i, Len(s))

\* the characters of s before position i
Head_(s, i) == IF i <= 1 THEN "" ELSE SubSeq(s, 1, i - 1)

\* the last position of character c in s, 0 when there is none (str::rfind)
RECURSIVE LastIndexFrom(_, _, _)
LastIndexFrom(s, c, i) ==
    IF i = 0 THEN 0
    ELSE IF SubSeq(s, i, i) = c THEN i
    ELSE LastIndexFrom(s, c, i - 1)

LastIndexOf(s, c) == LastIndexFrom(s, c, Len(s))

\* [String]::join
RECURSIVE Join(_, _)
Join(parts, sep) ==
    IF Len(parts) = 0 THEN ""
    ELSE IF Len(parts) = 1 THEN parts[1]
    ELSE parts[1] \o sep \o Join(SubSeq(parts, 2, Len(parts)), sep)

\* a path without its trailing separators and trailing "." components
\* (Path::components ignores them)
RECURSIVE StripTrailing(_)
StripTrailing(p) ==
    IF Len(p) > 1 /\ SubSeq(p, Len(p), Len(p)) = "/"
    THEN StripTrailing(SubSeq(p, 1, Len(p) - 1))
    ELSE IF Len(p) > 2 /\ SubSeq(p, Len(p) - 1, Len(p)) = "/."
    THEN StripTrailing(SubSeq(p, 1, Len(p) - 2))
    ELSE p

\* Path::file_name as an Option: <<>> (None) or <<name>> (Some)
FileName(p) ==
    LET q == StripTrailing(p)
        name == Tail_(q, LastIndexOf(q, "/") + 1)
    IN  IF name = "" \/ name = ".." \/ name = "." THEN <<>> ELSE <<name>>

\* Path::extension as an Option: the part of the file name after its last
\* dot; None without a file name, without a dot, or with the only dot first
Extension(p) ==
    IF FileName(p) = <<>> THEN <<>>
    ELSE LET name == FileName(p)[1]
             dot == LastIndexOf(name, ".")
         IN  IF dot <= 1 THEN <<>> ELSE <<Tail_(name, dot + 1)>>

\* Path::file_stem as an Option: the file name before its last dot, the
\* whole name when it has no dot or only a leading one
FileStem(p) ==
    IF FileName(p) = <<>> THEN <<>>
    ELSE LET name == FileName(p)[1]
             dot == LastIndexOf(name, ".")
         IN  IF dot <= 1 THEN <<name>> ELSE <<Head_(name, dot)>>

\* PathBuf::set_extension(ext), ext not empty: the path unchanged without a
\* file stem, else truncated right after the stem and followed by "." and ext
SetExtension(p, ext) ==
    IF FileStem(p) = <<>> THEN p
    ELSE LET q == StripTrailing(p)
             start == LastIndexOf(q, "/") + 1
         IN  Head_(q, start + Len(FileStem(p)[1])) \o "." \o ext

\* the path without the characters of its extension, the dot before them
\* kept: the slice Path::with_extension copies into the new PathBuf
WithoutExtension(p) ==
    IF Extension(p) = <<>> THEN p
    ELSE SubSeq(p, 1, Len(p) - Len(Extension(p)[1]))

\* Path::with_extension(ext): the copy is made, then set_extension(ext) is
\* applied to it
WithExtension(p, ext) ==
    CHOOSE out \in {SetExtension(copy, ext) : copy \in {WithoutExtension(p)}} : TRUE

(***************************************************************************)
(* The entry resolver of Compile::Fn.                                      *)
(***************************************************************************)
\* the closure with the pattern compared for equality, as in
\* Binary/Command/Sequential.rs
ResolveEntry_equals(entry, pattern, separator) ==
    IF Len(entry) = 0 THEN <<>>
    ELSE IF entry[Len(entry)] = pattern
    THEN <<Join(SubSeq(entry, 1, Len(entry) - 1), separator)>>
    ELSE <<>>

\* the filter_map closure: None for an entry without components or whose
\* last component does not end with the pattern, else the components
\* before the last one joined by the separator
ResolveEntry(entry, pattern, separator) ==
    IF Len(entry) = 0 THEN <<>>
    ELSE IF EndsWith(entry[Len(entry)], pattern)
    THEN <<Join(SubSeq(entry, 1, Len(entry) - 1), separator)>>
    ELSE <<>>

\* collect(): the Some results in the order of the entries
RECURSIVE Flatten(_)
Flatten(outs) ==
    IF Len(outs) = 0 THEN <<>>
    ELSE outs[1] \o Flatten(SubSeq(outs, 2, Len(outs)))

(***************************************************************************)
(* Program state.  Every call of Compile::Fn is a run: run 0 is the call   *)
(* made directly (by main, or by a caller with its own options), runs      *)
(* 1..MaxRuns are the calls the watch loop spawns.  A run that has not     *)
(* been called yet is "idle".                                              *)
(***************************************************************************)
\* the number of calls of Compile::Fn the watch loop spawns in one behaviour
MaxRuns == 2

RunIds == 0..MaxRuns

VARIABLES
    mpc,        \* main's position
    args,       \* main: std::env::args(), the program name first
    disk,       \* the files that exist as the program starts
    wq,         \* Watch::Fn: the notifications sent by the watcher, unreceived
    nevents,    \* the number of notifications the watcher has delivered
    handled,    \* Watch::Fn: the notifications rx.recv() has returned, in order
    nruns,      \* the number of runs the watch loop has spawned
    options,    \* per run: CompilerOptions
    cpc,        \* per run: the position of Compile::Fn's own body
    slots,      \* per run: the par_iter results, one per entry
    files,      \* per run: the resolved files
    queue,      \* per run: the spawned job tasks, in spawn order
    closer,     \* per run: the task that joins the queue and drops tx
    senders,    \* per run: the number of live Sender handles of the channel
    rx,         \* per run: the outcomes sent and not yet received
    compiler,   \* per run: Compiler {config, metrics}
    lock,       \* per run: the holder of the metrics mutex, 0 when free
    successful_compilations,
    failed_compilations,
    delivered,  \* per run: the outcomes rx.recv() returned, by sending job
    summary     \* per run: the values of the final "Compilation complete" line

vars == <<mpc, args, disk, wq, nevents, handled, nruns, options, cpc, slots, files, queue,
          closer, senders, rx, compiler, lock, successful_compilations,
          failed_compilations, delivered, summary>>

mainVars == <<mpc, args, disk, wq, nevents, handled, nruns>>

\* CompilerConfig::default
DefaultConfig ==
    [target |-> "es2022", module |-> "commonjs", strict |-> TRUE,
     emit_decorators_metadata |-> TRUE]

\* CompilerMetrics::default
DefaultMetrics == [files_processed |-> 0, total_time |-> 0, errors |-> 0]

\* Compiler::new
NewCompiler(config) == [config |-> config, metrics |-> DefaultMetrics]

NoOptions == [entry |-> <<>>, separator |-> "/", pattern |-> "", config |-> DefaultConfig]

NoSummary == [reported |-> FALSE]

\* the state of every run before any call
IdleRuns ==
    /\ options = [r \in RunIds |-> NoOptions]
    /\ cpc = [r \in RunIds |-> "idle"]
    /\ slots = [r \in RunIds |-> <<>>]
    /\ files = [r \in RunIds |-> <<>>]
    /\ queue = [r \in RunIds |-> <<>>]
    /\ closer = [r \in RunIds |-> "unspawned"]
    /\ senders = [r \in RunIds |-> 0]
    /\ rx = [r \in RunIds |-> <<>>]
    /\ compiler = [r \in RunIds |-> NewCompiler(DefaultConfig)]
    /\ lock = [r \in RunIds |-> 0]
    /\ successful_compilations = [r \in RunIds |-> 0]
    /\ failed_compilations = [r \in RunIds |-> 0]
    /\ delivered = [r \in RunIds |-> <<>>]
    /\ summary = [r \in RunIds |-> NoSummary]

(***************************************************************************)
(* Compile::Fn, lines 30-44: the channel, the compiler and the resolver.   *)
(***************************************************************************)
\* the calls of Compile::Fn that start together, calls[r] the options of
\* run r: each gets its channel with one Sender, an empty queue and a
\* compiler with fresh metrics; its entries wait to be resolved
CallCompile(calls) ==
    LET new == DOMAIN calls
    IN  /\ options' = [r \in RunIds |-> IF r \in new THEN calls[r] ELSE options[r]]
        /\ cpc' = [r \in RunIds |-> IF r \in new THEN "resolve" ELSE cpc[r]]
        /\ slots' = [r \in RunIds |->
              IF r \in new
              THEN [i \in 1..Len(calls[r].entry) |-> [done |-> FALSE, out |-> <<>>]]
              ELSE slots[r]]
        /\ senders' = [r \in RunIds |-> IF r \in new THEN 1 ELSE senders[r]]
        /\ compiler' = [r \in RunIds |->
              IF r \in new THEN NewCompiler(calls[r].config) ELSE compiler[r]]
        /\ UNCHANGED <<files, queue, closer, rx, lock, successful_compilations,
                       failed_compilations, delivered, summary>>

\* into_par_iter().filter_map(..): rayon resolves the entries in any order
Resolve(r) ==
    /\ cpc[r] = "resolve"
    /\ \E i \in 1..Len(slots[r]) :
          /\ ~slots[r][i].done
          /\ slots' = [slots EXCEPT ![r][i] =
                [done |-> TRUE,
                 out |-> ResolveEntry(options[r].entry[i], options[r].pattern,
                                      options[r].separator)]]
    /\ UNCHANGED <<mainVars, options, cpc, files, queue, closer, senders, rx,
                   compiler, lock, successful_compilations, failed_compilations,
                   delivered, summary>>

\* .collect(): every entry resolved, the Some results in entry order
CollectFiles(r) ==
    /\ cpc[r] = "resolve"
    /\ \A i \in 1..Len(slots[r]) : slots[r][i].done
    /\ files' = [files EXCEPT ![r] = Flatten([i \in 1..Len(slots[r]) |-> slots[r][i].out])]
    /\ delivered' = [delivered EXCEPT ![r] = [i \in 1..Len(files'[r]) |-> <<>>]]
    /\ cpc' = [cpc EXCEPT ![r] = "dispatch"]
    /\ UNCHANGED <<mainVars, options, slots, queue, closer, senders, rx, compiler,
                   lock, successful_compilations, failed_compilations, summary>>

(***************************************************************************)
(* Compile::Fn, lines 46-79: one spawned task per file, and the task that  *)
(* joins them all and then drops the original Sender.                      *)
(***************************************************************************)
\* tokio::spawn of the job task of one file, with its own clone of tx;
\* `emitted` tells that buf holds the emitted module, `writes` counts the
\* calls of fs::write on the job's js_path
NewTask(file) ==
    [file |-> file, pc |-> "read", outcome |-> "none", timer |-> 0,
     emitted |-> FALSE, writes |-> 0]

\* one iteration of `for file in files`: tx.clone() and queue.push(spawn(..))
Dispatch(r) ==
    /\ cpc[r] = "dispatch"
    /\ Len(queue[r]) < Len(files[r])
    /\ queue' = [queue EXCEPT ![r] = Append(@, NewTask(files[r][Len(queue[r]) + 1]))]
    /\ senders' = [senders EXCEPT ![r] = @ + 1]
    /\ UNCHANGED <<mainVars, options, cpc, slots, files, closer, rx, compiler, lock,
                   successful_compilations, failed_compilations, delivered, summary>>

\* after the loop: the joining task is spawned with the original tx moved
\* into it, and the tallies start at 0
SpawnCloser(r) ==
    /\ cpc[r] = "dispatch"
    /\ Len(queue[r]) = Len(files[r])
    /\ closer' = [closer EXCEPT ![r] = "joining"]
    /\ successful_compilations' = [successful_compilations EXCEPT ![r] = 0]
    /\ failed_compilations' = [failed_compilations EXCEPT ![r] = 0]
    /\ cpc' = [cpc EXCEPT ![r] = "collect"]
    /\ UNCHANGED <<mainVars, options, slots, files, queue, senders, rx, compiler,
                   lock, delivered, summary>>

\* a task whose future has ended, by returning or by panicking
Finished(t) == t.pc \in {"done", "panicked"}

\* queue.collect::<Vec<_>>().await is ready: every JoinHandle has resolved
Joined(r) == \A i \in 1..Len(queue[r]) : Finished(queue[r][i])

\* a joining task that never gets the original tx: Compile::Fn keeps it
Closer_keepTx(r) ==
    /\ closer[r] = "joining"
    /\ Joined(r)
    /\ closer' = [closer EXCEPT ![r] = "done"]
    /\ UNCHANGED <<mainVars, options, cpc, slots, files, queue, senders, rx,
                   compiler, lock, successful_compilations, failed_compilations,
                   delivered, summary>>

\* the joining task: queue.collect().await, then drop(tx)
Closer(r) ==
    /\ closer[r] = "joining"
    /\ Joined(r)
    /\ closer' = [closer EXCEPT ![r] = "done"]
    /\ senders' = [senders EXCEPT ![r] = @ - 1]
    /\ UNCHANGED <<mainVars, options, cpc, slots, files, queue, rx, compiler, lock,
                   successful_compilations, failed_compilations, delivered, summary>>

(***************************************************************************)
(* One job task: Compile.rs lines 51-73 around Compiler::compile_file,     *)
(* SWC.rs lines 80-133.                                                    *)
(***************************************************************************)
taskFrame == <<mainVars, options, cpc, slots, files, closer,
               successful_compilations, failed_compilations, delivered, summary>>

\* fs::read_to_string can succeed on any path but the empty one
Readable(file) == file # ""

\* fs::read_to_string(&file) is Ok(input): compile_file begins and takes
\* start_time = Instant::now()
TaskReadOk(r, i) ==
    /\ queue[r][i].pc = "read"
    /\ Readable(queue[r][i].file)
    /\ queue' = [queue EXCEPT ![r][i].pc = "parse", ![r][i].timer = 0]
    /\ UNCHANGED <<taskFrame, senders, rx, compiler, lock>>

\* fs::read_to_string(&file) is Err: the error is the job's outcome
TaskReadErr(r, i) ==
    /\ queue[r][i].pc = "read"
    /\ queue' = [queue EXCEPT ![r][i].pc = "send", ![r][i].outcome = "ReadErr"]
    /\ UNCHANGED <<taskFrame, senders, rx, compiler, lock>>

\* parser.parse_module() is Ok: the module is folded (lines 96-108)
TaskParseOk(r, i) ==
    /\ queue[r][i].pc = "parse"
    /\ queue' = [queue EXCEPT ![r][i].pc = "emit", ![r][i].timer = @ + ParseTime]
    /\ UNCHANGED <<taskFrame, senders, rx, compiler, lock>>

\* parser.parse_module() is Err: .expect(..) panics, the task unwinds and
\* its clone of tx is dropped with nothing sent
TaskParsePanic(r, i) ==
    /\ queue[r][i].pc = "parse"
    /\ queue' = [queue EXCEPT ![r][i].pc = "panicked", ![r][i].outcome = "Panic",
                              ![r][i].timer = @ + ParseTime]
    /\ senders' = [senders EXCEPT ![r] = @ - 1]
    /\ UNCHANGED <<taskFrame, rx, compiler, lock>>

\* emitter.emit_module(&module) is Ok
TaskEmitOk(r, i) ==
    /\ queue[r][i].pc = "emit"
    /\ queue' = [queue EXCEPT ![r][i].pc = "write", ![r][i].timer = @ + EmitTime,
                              ![r][i].emitted = TRUE]
    /\ UNCHANGED <<taskFrame, senders, rx, compiler, lock>>

\* a failed emit that leaves what it had emitted in the output file
TaskEmitErr_partialWrite(r, i) ==
    /\ queue[r][i].pc = "emit"
    /\ queue' = [queue EXCEPT ![r][i].pc = "send", ![r][i].outcome = "EmitErr",
                              ![r][i].timer = @ + EmitTime,
                              ![r][i].writes = @ + 1]
    /\ UNCHANGED <<taskFrame, senders, rx, compiler, lock>>

\* emitter.emit_module(&module) is Err: `?` returns it from compile_file
TaskEmitErr(r, i) ==
    /\ queue[r][i].pc = "emit"
    /\ queue' = [queue EXCEPT ![r][i].pc = "send", ![r][i].outcome = "EmitErr",
                              ![r][i].timer = @ + EmitTime]
    /\ UNCHANGED <<taskFrame, senders, rx, compiler, lock>>

\* fs::write(&js_path, &buf) is Ok; elapsed = start_time.elapsed() follows
TaskWriteOk(r, i) ==
    /\ queue[r][i].pc = "write"
    /\ queue' = [queue EXCEPT ![r][i].pc = "lock", ![r][i].timer = @ + WriteTime,
                              ![r][i].writes = @ + 1]
    /\ UNCHANGED <<taskFrame, senders, rx, compiler, lock>>

\* fs::write(&js_path, &buf) is Err: `?` returns it from compile_file
TaskWriteErr(r, i) ==
    /\ queue[r][i].pc = "write"
    /\ queue' = [queue EXCEPT ![r][i].pc = "send", ![r][i].outcome = "WriteErr",
                              ![r][i].timer = @ + WriteTime,
                              ![r][i].writes = @ + 1]
    /\ UNCHANGED <<taskFrame, senders, rx, compiler, lock>>

\* an acquisition that does not wait for the mutex
TaskLock_noWait(r, i) ==
    /\ queue[r][i].pc = "lock"
    /\ lock' = [lock EXCEPT ![r] = i]
    /\ queue' = [queue EXCEPT ![r][i].pc = "count"]
    /\ UNCHANGED <<taskFrame, senders, rx, compiler>>

\* self.metrics.lock().await: waits until the mutex is free
TaskLock(r, i) ==
    /\ queue[r][i].pc = "lock"
    /\ lock[r] = 0
    /\ lock' = [lock EXCEPT ![r] = i]
    /\ queue' = [queue EXCEPT ![r][i].pc = "count"]
    /\ UNCHANGED <<taskFrame, senders, rx, compiler>>

\* metrics.files_processed += 1
RecordProcessed(m) == [m EXCEPT !.files_processed = @ + 1]

\* metrics.total_time += elapsed
RecordTime(m, elapsed) == [m EXCEPT !.total_time = @ + elapsed]

TaskCount(r, i) ==
    /\ queue[r][i].pc = "count"
    /\ compiler' = [compiler EXCEPT ![r].metrics = RecordProcessed(@)]
    /\ queue' = [queue EXCEPT ![r][i].pc = "time"]
    /\ UNCHANGED <<taskFrame, senders, rx, lock>>

\* a compile_file whose guard outlives its return
TaskTime_keepLock(r, i) ==
    /\ queue[r][i].pc = "time"
    /\ compiler' = [compiler EXCEPT ![r].metrics = RecordTime(@, queue[r][i].timer)]
    /\ queue' = [queue EXCEPT ![r][i].pc = "send", ![r][i].outcome = "Ok"]
    /\ UNCHANGED <<taskFrame, senders, rx, lock>>

\* the second update, then compile_file returns Ok(js_path) and the guard
\* is dropped
TaskTime(r, i) ==
    /\ queue[r][i].pc = "time"
    /\ compiler' = [compiler EXCEPT ![r].metrics = RecordTime(@, queue[r][i].timer)]
    /\ lock' = [lock EXCEPT ![r] = 0]
    /\ queue' = [queue EXCEPT ![r][i].pc = "send", ![r][i].outcome = "Ok"]
    /\ UNCHANGED <<taskFrame, senders, rx>>

\* the (file, result) pair a task sends; `job` tags it with the sender's
\* place in the queue
Outcome(t, i) ==
    [file |-> t.file,
     ok |-> t.outcome = "Ok",
     val |-> IF t.outcome = "Ok" THEN WithExtension(t.file, "js") ELSE t.outcome,
     job |-> i]

\* tx.send((file.clone(), ..)): the receiver lives until Compile::Fn
\* returns, so the send succeeds; the task ends and drops its clone of tx
TaskSend(r, i) ==
    /\ queue[r][i].pc = "send"
    /\ rx' = [rx EXCEPT ![r] = Append(@, Outcome(queue[r][i], i))]
    /\ senders' = [senders EXCEPT ![r] = @ - 1]
    /\ queue' = [queue EXCEPT ![r][i].pc = "done"]
    /\ UNCHANGED <<taskFrame, compiler, lock>>

(***************************************************************************)
(* Compile::Fn, lines 81-103: the receive loop and the summary.            *)
(***************************************************************************)
\* rx.recv() is Some: the oldest outcome is logged and tallied
Recv(r) ==
    /\ cpc[r] = "collect"
    /\ Len(rx[r]) > 0
    /\ LET m == Head(rx[r])
       IN  /\ rx' = [rx EXCEPT ![r] = Tail(@)]
           /\ successful_compilations' =
                 [successful_compilations EXCEPT ![r] = IF m.ok THEN @ + 1 ELSE @]
           /\ failed_compilations' =
                 [failed_compilations EXCEPT ![r] = IF m.ok THEN @ ELSE @ + 1]
           /\ delivered' = [delivered EXCEPT ![r][m.job] = Append(@, m)]
    /\ UNCHANGED <<mainVars, options, cpc, slots, files, queue, closer, senders,
                   compiler, lock, summary>>

\* a receive that gives up as soon as the channel is empty (try_recv)
ChannelClosed_empty(r) == Len(rx[r]) = 0

\* rx.recv() is None: the channel is empty and every Sender is dropped
ChannelClosed(r) == Len(rx[r]) = 0 /\ senders[r] = 0

RecvNone(r) ==
    /\ cpc[r] = "collect"
    /\ ChannelClosed(r)
    /\ cpc' = [cpc EXCEPT ![r] = "summary"]
    /\ UNCHANGED <<mainVars, options, slots, files, queue, closer, senders, rx,
                   compiler, lock, successful_compilations, failed_compilations,
                   delivered, summary>>

\* the values of the "Compilation complete" line
SummaryLine(r) ==
    [reported |-> TRUE,
     processed |-> compiler[r].metrics.files_processed,
     time |-> compiler[r].metrics.total_time,
     successful |-> successful_compilations[r],
     failed |-> failed_compilations[r]]

\* compiler.metrics.lock().await, the info! line and Ok(()): the guard is
\* taken when the mutex is free and dropped as the function returns
Summary(r) ==
    /\ cpc[r] = "summary"
    /\ lock[r] = 0
    /\ summary' = [summary EXCEPT ![r] = SummaryLine(r)]
    /\ cpc' = [cpc EXCEPT ![r] = "returned"]
    /\ UNCHANGED <<mainVars, options, slots, files, queue, closer, senders, rx,
                   compiler, lock, successful_compilations, failed_compilations,
                   delivered>>

(***************************************************************************)
(* A direct call of Compile::Fn, as in its documentation example: the      *)
(* caller supplies the options.                                            *)
(***************************************************************************)
\* file names for the entries of a direct call
SampleNames == <<"a.ts", "b.ts", "c.ts", "d.ts", "e.ts">>

\* the i-th entry of a direct call: its last component matches ".ts" or not
SampleEntry(i, matching) ==
    IF matching THEN <<"src", SampleNames[i], "file.ts">>
    ELSE <<"src", SampleNames[i], "file.json">>

\* the options of a direct call: up to MaxEntries entries
OptionsUpTo(max) ==
    UNION { { [entry |-> [i \in 1..n |-> SampleEntry(i, m[i])], separator |-> "/",
               pattern |-> ".ts", config |-> DefaultConfig] :
              m \in [1..n -> BOOLEAN] } : n \in 0..max }

DirectOptions == OptionsUpTo(MaxEntries)

LiveOptions == OptionsUpTo(MaxLiveEntries)

DirectCall(optionSet) ==
    /\ mpc = "direct"
    /\ cpc[0] = "idle"
    /\ \E opts \in optionSet : CallCompile(0 :> opts)
    /\ UNCHANGED mainVars

\* the job tasks run r has spawned
Jobs(r) == 1..Len(queue[r])

Init ==
    /\ mpc = "direct"
    /\ args = <<>>
    /\ disk = {}
    /\ wq = <<>>
    /\ nevents = 0
    /\ handled = <<>>
    /\ nruns = 0
    /\ IdleRuns

\* the steps of the directly called run and of its job tasks
DirectSteps ==
    \/ Resolve(0)
    \/ CollectFiles(0)
    \/ Dispatch(0)
    \/ SpawnCloser(0)
    \/ \E i \in Jobs(0) : TaskReadOk(0, i)
    \/ \E i \in Jobs(0) : TaskReadErr(0, i)
    \/ \E i \in Jobs(0) : TaskParseOk(0, i)
    \/ \E i \in Jobs(0) : TaskParsePanic(0, i)
    \/ \E i \in Jobs(0) : TaskEmitOk(0, i)
    \/ \E i \in Jobs(0) : TaskEmitErr(0, i)
    \/ \E i \in Jobs(0) : TaskWriteOk(0, i)
    \/ \E i \in Jobs(0) : TaskWriteErr(0, i)
    \/ \E i \in Jobs(0) : TaskLock(0, i)
    \/ \E i \in Jobs(0) : TaskCount(0, i)
    \/ \E i \in Jobs(0) : TaskTime(0, i)
    \/ \E i \in Jobs(0) : TaskSend(0, i)
    \/ Closer(0)
    \/ Recv(0)
    \/ RecvNone(0)
    \/ Summary(0)

Next ==
    \/ DirectCall(DirectOptions)
    \/ DirectSteps

Spec == Init /\ [][Next]_vars

LiveNext ==
    \/ DirectCall(LiveOptions)
    \/ DirectSteps

\* the direct call with the tasks scheduled fairly: a step that can be
\* taken is not postponed for ever
LiveSpec == Init /\ [][LiveNext]_vars /\ WF_vars(LiveNext)

(***************************************************************************)
(* main (SWC.rs lines 137-171) and the watch loop (Watch.rs).              *)
(***************************************************************************)
\* the argument lists main is started with
MainArgs ==
    { <<"swc">>, <<"swc", "src">>, <<"swc", "lib.ts">>, <<"swc", "missing">>,
      <<"swc", "src", "extra">> }

\* the disks main is started on: an empty one, one with the directory src
\* and one with the directory lib.ts
Disks == {{}, {"src/a.ts", "src/b.json"}, {"lib.ts/c.ts"}}

\* swc_config.json, when it is there and parses
CustomConfig ==
    [target |-> "es5", module |-> "es6", strict |-> FALSE,
     emit_decorators_metadata |-> FALSE]

\* the config main ends up with: the file's, or the default
MainConfigs == {DefaultConfig, CustomConfig}

\* the path is a file on disk or a directory above one
PathExists(path) ==
    \E f \in disk : f = path \/ StartsWith(f, path \o "/")

\* CompilerOptions built by main from the directory argument
MainOptions(dir, config) ==
    [entry |-> << <<dir>> >>, separator |-> "/", pattern |-> ".ts", config |-> config]

\* args.len() != 2: the usage line and std::process::exit(1)
MainUsage ==
    /\ mpc = "start"
    /\ Len(args) # 2
    /\ mpc' = "exit1"
    /\ UNCHANGED <<args, disk, wq, nevents, handled, nruns, options, cpc, slots, files,
                   queue, closer, senders, rx, compiler, lock,
                   successful_compilations, failed_compilations, delivered, summary>>

\* the config is loaded, the options are built and the initial compilation
\* is called
MainStart ==
    /\ mpc = "start"
    /\ Len(args) = 2
    /\ \E config \in MainConfigs : CallCompile(0 :> MainOptions(args[2], config))
    /\ mpc' = "bulk"
    /\ UNCHANGED <<args, disk, wq, nevents, handled, nruns>>

\* a main that starts the bulk pass without awaiting it
MainBulkDone_spawned ==
    /\ mpc = "bulk"
    /\ cpc[0] # "idle"
    /\ mpc' = "watch_init"
    /\ UNCHANGED <<args, disk, wq, nevents, handled, nruns, options, cpc, slots, files,
                   queue, closer, senders, rx, compiler, lock,
                   successful_compilations, failed_compilations, delivered, summary>>

\* compile_typescript(options).await? has returned Ok(())
MainBulkDone ==
    /\ mpc = "bulk"
    /\ cpc[0] = "returned"
    /\ mpc' = "watch_init"
    /\ UNCHANGED <<args, disk, wq, nevents, handled, nruns, options, cpc, slots, files,
                   queue, closer, senders, rx, compiler, lock,
                   successful_compilations, failed_compilations, delivered, summary>>

\* Watch::Fn lines 4-15: the watcher is created and watches the path
WatchStartOk ==
    /\ mpc = "watch_init"
    /\ PathExists(args[2])
    /\ mpc' = "watching"
    /\ UNCHANGED <<args, disk, wq, nevents, handled, nruns, options, cpc, slots, files,
                   queue, closer, senders, rx, compiler, lock,
                   successful_compilations, failed_compilations, delivered, summary>>

\* RecommendedWatcher::new or watcher.watch is Err: `?` returns it from
\* Watch::Fn and from main
WatchStartErr ==
    /\ mpc = "watch_init"
    /\ mpc' = "failed"
    /\ UNCHANGED <<args, disk, wq, nevents, handled, nruns, options, cpc, slots, files,
                   queue, closer, senders, rx, compiler, lock,
                   successful_compilations, failed_compilations, delivered, summary>>

\* a notification of the watcher: Ok(notify::Event) or Err
OkEvent(kind, paths) == [ok |-> TRUE, kind |-> kind, paths |-> paths]

ErrEvent == [ok |-> FALSE, kind |-> "Error", paths |-> <<>>]

\* the notifications there can be
EventPool ==
    { OkEvent("ModifyData", <<"src/a.ts">>),
      OkEvent("ModifyData", <<"src/b.json">>),
      OkEvent("ModifyData", <<"src/a.ts", "src/d.ts">>),
      OkEvent("ModifyData", <<"lib.ts/c.ts">>),
      OkEvent("ModifyName", <<"src/a.ts">>),
      OkEvent("ModifyMetadata", <<"src/a.ts">>),
      OkEvent("Create", <<"src/a.ts">>),
      OkEvent("Remove", <<"src/a.ts">>),
      ErrEvent }

\* the watcher's callback: tx.send(res), for an event under the watched path
Notify(res) ==
    /\ mpc = "watching"
    /\ nevents < MaxEvents
    /\ \A k \in 1..Len(res.paths) : StartsWith(res.paths[k], args[2] \o "/")
    /\ wq' = Append(wq, res)
    /\ nevents' = nevents + 1
    /\ UNCHANGED <<mpc, args, disk, handled, nruns, options, cpc, slots, files, queue,
                   closer, senders, rx, compiler, lock, successful_compilations,
                   failed_compilations, delivered, summary>>

\* a filter that accepts a path with any extension
IsSource_anyExtension(path) == Extension(path) # <<>>

\* path.extension().map_or(false, |ext| ext == "ts")
IsSource(path) == Extension(path) = <<"ts">>

\* a loop that skips a path while a compilation spawned for it is running
Accepted_dedup(paths) ==
    SelectSeq(paths, LAMBDA p :
        /\ IsSource(p)
        /\ ~\E r \in 1..nruns :
              options[r].entry = << <<p>> >> /\ cpc[r] # "returned")

\* the paths of an event the loop spawns a compilation for, in order
Accepted(paths) == SelectSeq(paths, IsSource)

\* CompilerOptions { entry: vec![vec![path]], ..options.clone() }
FileOptions(path, opts) == [opts EXCEPT !.entry = << <<path>> >>]

\* rx.recv() is Some(Ok(event)) with a Modify(Data(_)) kind: one
\* Compile::Fn task is spawned for each path with the extension ts
WatchModify ==
    /\ mpc = "watching"
    /\ Len(wq) > 0
    /\ Head(wq).ok
    /\ Head(wq).kind = "ModifyData"
    /\ LET paths == Accepted(Head(wq).paths)
       IN  /\ nruns + Len(paths) <= MaxRuns
           /\ CallCompile([r \in (nruns + 1)..(nruns + Len(paths)) |->
                              FileOptions(paths[r - nruns], options[0])])
           /\ nruns' = nruns + Len(paths)
    /\ wq' = Tail(wq)
    /\ handled' = Append(handled, Head(wq))
    /\ UNCHANGED <<mpc, args, disk, nevents>>

\* rx.recv() is Some(Ok(event)) of any other kind: nothing is done
WatchIgnore ==
    /\ mpc = "watching"
    /\ Len(wq) > 0
    /\ Head(wq).ok
    /\ Head(wq).kind # "ModifyData"
    /\ wq' = Tail(wq)
    /\ handled' = Append(handled, Head(wq))
    /\ UNCHANGED <<mpc, args, disk, nevents, nruns, options, cpc, slots, files,
                   queue, closer, senders, rx, compiler, lock,
                   successful_compilations, failed_compilations, delivered, summary>>

\* a loop that returns on the first error notification
WatchError_stop ==
    /\ mpc = "watching"
    /\ Len(wq) > 0
    /\ ~Head(wq).ok
    /\ wq' = Tail(wq)
    /\ handled' = Append(handled, Head(wq))
    /\ mpc' = "stopped"
    /\ UNCHANGED <<args, disk, nevents, nruns, options, cpc, slots, files,
                   queue, closer, senders, rx, compiler, lock,
                   successful_compilations, failed_compilations, delivered, summary>>

\* rx.recv() is Some(Err(e)): the error is logged
WatchError ==
    /\ mpc = "watching"
    /\ Len(wq) > 0
    /\ ~Head(wq).ok
    /\ wq' = Tail(wq)
    /\ handled' = Append(handled, Head(wq))
    /\ UNCHANGED <<mpc, args, disk, nevents, nruns, options, cpc, slots, files,
                   queue, closer, senders, rx, compiler, lock,
                   successful_compilations, failed_compilations, delivered, summary>>

\* the steps of a run made by main or by the watch loop.  Its one entry has
\* one component, so its only file is the empty path, which cannot be read:
\* the steps of compile_file are not among them
MainRunSteps(r) ==
    \/ Resolve(r)
    \/ CollectFiles(r)
    \/ Dispatch(r)
    \/ SpawnCloser(r)
    \/ \E i \in Jobs(r) : TaskReadErr(r, i)
    \/ \E i \in Jobs(r) : TaskSend(r, i)
    \/ Closer(r)
    \/ Recv(r)
    \/ RecvNone(r)
    \/ Summary(r)

MainInit ==
    /\ mpc = "start"
    /\ args \in MainArgs
    /\ disk \in Disks
    /\ wq = <<>>
    /\ nevents = 0
    /\ handled = <<>>
    /\ nruns = 0
    /\ IdleRuns

MainNext ==
    \/ MainUsage
    \/ MainStart
    \/ MainBulkDone
    \/ WatchStartOk
    \/ WatchStartErr
    \/ \E res \in EventPool : Notify(res)
    \/ WatchModify
    \/ WatchIgnore
    \/ WatchError
    \/ \E r \in RunIds : MainRunSteps(r)

SpecMain == MainInit /\ [][MainNext]_vars

(***************************************************************************)
(* Properties of the dispatch/collect pass.                                *)
(***************************************************************************)
\* the jobs of run r that did not compile: failed at read, parse, emit or
\* write
FailedJobs(r) == {i \in Jobs(r) : queue[r][i].outcome \notin {"none", "Ok"}}

\* every job of run r has been spawned and has ended
AllJobsCompleted(r) ==
    /\ cpc[r] \in {"collect", "summary", "returned"}
    /\ \A i \in Jobs(r) : queue[r][i].pc \in {"done", "panicked"}

\* C1: in every summary reported, the processed count read from the
\* metrics equals the success tally plus the failure tally.
C1_ProcessedIsSuccessPlusFailure ==
    \A r \in RunIds :
        summary[r].reported =>
            summary[r].processed = summary[r].successful + summary[r].failed

\* C2: once all N dispatched jobs have completed, of which F failed,
\* metrics.files_processed = N and metrics.errors = F.
C2_MetricsCountJobsAndErrors ==
    \A r \in RunIds :
        AllJobsCompleted(r) =>
            /\ compiler[r].metrics.files_processed = Len(files[r])
            /\ compiler[r].metrics.errors = Cardinality(FailedJobs(r))

\* C3: when the collector has seen the channel closed, it has received
\* exactly one outcome from each of the N jobs.
C3_OneOutcomePerJob ==
    \A r \in RunIds :
        cpc[r] \in {"summary", "returned"} =>
            \A i \in 1..Len(files[r]) : Len(delivered[r][i]) = 1

\* C4: when the pass has returned, it returned Ok with its summary, every
\* job that failed delivered one Failure outcome carrying its file, and
\* every other job delivered its one Success outcome.
C4_FailureIsolated ==
    \A r \in RunIds :
        cpc[r] = "returned" =>
            /\ summary[r].reported
            /\ \A i \in 1..Len(files[r]) :
                  /\ i \in Jobs(r)
                  /\ Len(delivered[r][i]) = 1
                  /\ delivered[r][i][1].file = files[r][i]
                  /\ delivered[r][i][1].ok = (queue[r][i].outcome = "Ok")

\* C5: the channel has no Sender left, and the collector has left its
\* receive loop, only when every file's job task has been spawned and has
\* ended with nothing left to send.
C5_ChannelClosesAfterTasks ==
    \A r \in RunIds :
        (cpc[r] \in {"summary", "returned"} \/ (cpc[r] # "idle" /\ senders[r] = 0)) =>
            /\ Len(queue[r]) = Len(files[r])
            /\ cpc[r] \notin {"resolve", "dispatch"}
            /\ \A i \in Jobs(r) : queue[r][i].pc \in {"done", "panicked"}

\* C5 happens: the collector has left the loop of a run with one job that
\* sent its outcome and one that panicked
C5_Witness ==
    /\ cpc[0] = "summary"
    /\ \E i, j \in Jobs(0) : queue[0][i].pc = "done" /\ queue[0][j].pc = "panicked"

\* C6: under fair scheduling the call of Compile::Fn, with any number of
\* jobs, ends with its summary reported; and the collector leaves its
\* receive loop only in a step where the channel is empty with no Sender
\* left.
C6_CollectorTerminates ==
    /\ [](cpc[0] # "idle" => <>(cpc[0] = "returned" /\ summary[0].reported))
    /\ [][\A r \in RunIds :
            (cpc[r] = "collect" /\ cpc'[r] # "collect") =>
                (Len(rx[r]) = 0 /\ senders[r] = 0)]_vars

\* C6 happens: a run with jobs that ended in each way has returned, and
\* so has one with no job at all (seen when its summary counts nothing)
C6_Witness ==
    /\ cpc[0] = "returned"
    /\ summary[0].reported
    /\ \E i, j \in Jobs(0) : queue[0][i].outcome = "Panic" /\ queue[0][j].outcome = "WriteErr"

(***************************************************************************)
(* The entry resolver on its own: Compile::Fn called with entry lists      *)
(* drawn from a pool, and run up to the resolved files.                    *)
(***************************************************************************)
ResolvePool ==
    { <<>>, <<"a", "b", "file.ts">>, <<"a", "c", "file.json">>, <<"x.ts">>,
      <<"ts">>, <<"a", ".ts">> }

ResolveLists == UNION { [1..n -> ResolvePool] : n \in 0..MaxResolve }

ResolveOptions ==
    { [entry |-> e, separator |-> "/", pattern |-> pat, config |-> DefaultConfig] :
        e \in ResolveLists, pat \in {".ts", ""} }

ResolveNext ==
    \/ DirectCall(ResolveOptions)
    \/ Resolve(0)
    \/ CollectFiles(0)

SpecResolve == Init /\ [][ResolveNext]_vars

\* the entries of run r that have a last component ending with the pattern
MatchingEntries(r) ==
    {i \in 1..Len(options[r].entry) :
        /\ Len(options[r].entry[i]) > 0
        /\ EndsWith(options[r].entry[i][Len(options[r].entry[i])], options[r].pattern)}

\* the k-th matching entry of run r
KthMatching(r, k) ==
    CHOOSE i \in MatchingEntries(r) :
        Cardinality({j \in MatchingEntries(r) : j <= i}) = k

\* C7: whatever the order the entries were resolved in, the resolved list
\* has one job for each entry whose last component ends with the pattern
\* and none for any other entry: as many jobs as matching entries, the
\* k-th job made from the k-th matching entry (its components before the
\* last, joined by the separator).
C7_OneJobPerMatchingEntry ==
    \A r \in RunIds :
        cpc[r] \notin {"idle", "resolve"} =>
            /\ Len(files[r]) = Cardinality(MatchingEntries(r))
            /\ \A k \in 1..Len(files[r]) :
                  LET e == options[r].entry[KthMatching(r, k)]
                  IN  files[r][k] = Join(SubSeq(e, 1, Len(e) - 1), options[r].separator)

\* C7 happens: an entry without components and a matching entry have been
\* resolved to the one job of the matching entry
C7_Witness ==
    /\ cpc[0] = "dispatch"
    /\ options[0].entry = << <<>>, <<"a", "b", "file.ts">> >>
    /\ options[0].pattern = ".ts"
    /\ Len(files[0]) = 1

\* C8: the documented scenario resolves to the job list ["a/b/file.ts"].
C8_ScenarioResolvesToFile ==
    ( /\ cpc[0] \notin {"idle", "resolve"}
      /\ options[0].entry = << <<"a", "b", "file.ts">>, <<"a", "c", "file.json">> >>
      /\ options[0].pattern = ".ts"
      /\ options[0].separator = "/" )
    => files[0] = <<"a/b/file.ts">>

(***************************************************************************)
(* Properties of main and of the watch loop.                               *)
(***************************************************************************)
\* the files on disk under directory dir whose name ends with .ts
SourceFilesUnder(dir) ==
    {f \in disk : StartsWith(f, dir \o "/") /\ EndsWith(f, ".ts")}

\* C9: when the bulk pass of main has dispatched its jobs, there is one
\* job for each existing .ts file under the root directory, reading that
\* file, and no other job.
C9_BulkPassCompilesEverySourceFile ==
    (mpc \in {"bulk", "watch_init", "watching", "failed"}
        /\ cpc[0] \in {"collect", "summary", "returned"}) =>
            /\ Len(queue[0]) = Cardinality(SourceFilesUnder(args[2]))
            /\ \A f \in SourceFilesUnder(args[2]) :
                  \E i \in Jobs(0) : queue[0][i].file = f

\* C10: a run spawned by the watch loop for a changed file P dispatches
\* exactly one job, that job reads P, and the run has the config of the
\* bulk pass.
C10_WatchRunCompilesChangedFile ==
    \A r \in 1..nruns :
        cpc[r] \in {"collect", "summary", "returned"} =>
            /\ Len(queue[r]) = 1
            /\ queue[r][1].file = options[r].entry[1][1]
            /\ options[r].config = options[0].config

\* the number of paths with the extension ts among the paths
RECURSIVE CountSources(_)
CountSources(paths) ==
    IF Len(paths) = 0 THEN 0
    ELSE (IF Extension(paths[1]) = <<"ts">> THEN 1 ELSE 0)
         + CountSources(SubSeq(paths, 2, Len(paths)))

\* the number of compilations the notifications call for: one for each
\* path with the extension ts of each data-modification event
RECURSIVE CountTriggers(_)
CountTriggers(notes) ==
    IF Len(notes) = 0 THEN 0
    ELSE (IF notes[1].ok /\ notes[1].kind = "ModifyData"
          THEN CountSources(notes[1].paths) ELSE 0)
         + CountTriggers(SubSeq(notes, 2, Len(notes)))

\* C11: the compilations the watch loop has spawned are exactly those of
\* the data-modification events on paths with the extension ts among the
\* notifications it has received: every other notification spawns none.
C11_OnlySourceDataModifyTriggers ==
    /\ nruns = CountTriggers(handled)
    /\ \A r \in 1..MaxRuns : (cpc[r] # "idle") = (r <= nruns)

\* C11 happens: a rename and a data modification of a .json file have been
\* received and nothing has been spawned
C11_Witness ==
    /\ Len(handled) = 2
    /\ handled[1] = OkEvent("ModifyName", <<"src/a.ts">>)
    /\ handled[2] = OkEvent("ModifyData", <<"src/b.json">>)
    /\ nruns = 0
    /\ \A r \in 1..MaxRuns : cpc[r] = "idle"

\* the paths with the extension ts of the data-modification events among
\* the notifications, in order, repeats kept
RECURSIVE TriggerPaths(_)
TriggerPaths(notes) ==
    IF Len(notes) = 0 THEN <<>>
    ELSE (IF notes[1].ok /\ notes[1].kind = "ModifyData"
          THEN SelectSeq(notes[1].paths, LAMBDA p : Extension(p) = <<"ts">>)
          ELSE <<>>)
         \o TriggerPaths(SubSeq(notes, 2, Len(notes)))

\* C12: the compilations spawned are, in order, one for each accepted path
\* of each data-modification event received, a repeated path included
\* again; and the loop handles a data-modification event at the head of
\* its channel whatever the state of the compilations spawned before.
C12_RetriggersNotDeduplicated ==
    /\ [r \in 1..nruns |-> options[r].entry] =
          [r \in 1..Len(TriggerPaths(handled)) |-> << <<TriggerPaths(handled)[r]>> >>]
    /\ ( /\ mpc = "watching"
         /\ Len(wq) > 0
         /\ Head(wq).ok
         /\ Head(wq).kind = "ModifyData"
         /\ nruns + CountSources(Head(wq).paths) <= MaxRuns )
       => ENABLED WatchModify

\* C12 happens: two data modifications of the same file have each spawned
\* a compilation, and the job tasks of both are running
C12_Witness ==
    /\ nruns = 2
    /\ handled = << OkEvent("ModifyData", <<"src/a.ts">>),
                    OkEvent("ModifyData", <<"src/a.ts">>) >>
    /\ options[1].entry = options[2].entry
    /\ Len(queue[1]) = 1 /\ queue[1][1].pc = "read"
    /\ Len(queue[2]) = 1 /\ queue[2][1].pc = "read"

\* C13: once the loop has received an error notification, or a
\* compilation it spawned has tallied a failure, it is still watching, it
\* takes the next notification of its channel, and every accepted path of
\* every data-modification event it has received, before or after, has
\* spawned its compilation.
C13_WatchLoopSurvivesErrors ==
    ( \/ \E k \in 1..Len(handled) : ~handled[k].ok
      \/ \E r \in 1..nruns : failed_compilations[r] > 0 ) =>
        /\ mpc = "watching"
        /\ nruns = CountTriggers(handled)
        /\ (Len(wq) > 0 /\ nruns + CountTriggers(<<Head(wq)>>) <= MaxRuns)
              => ENABLED (WatchModify \/ WatchIgnore \/ WatchError)

\* C13 happens: an error notification was received and the data
\* modification received after it has spawned its compilation
C13_Witness ==
    /\ handled = <<ErrEvent, OkEvent("ModifyData", <<"src/a.ts">>)>>
    /\ nruns = 1
    /\ cpc[1] = "returned"
    /\ failed_compilations[1] = 1
    /\ mpc = "watching"

\* C14: whenever main has gone past the bulk pass (the watcher is being
\* set up, is watching, or has failed to start) or a compilation spawned by
\* the watch loop exists, the bulk call has returned: each of its tasks has
\* finished, its channel is closed and drained, and its summary is reported.
C14_BulkPassCompleteBeforeWatch ==
    ( \/ mpc \in {"watch_init", "watching", "failed"}
      \/ \E r \in 1..MaxRuns : cpc[r] # "idle"
      \/ Len(wq) > 0 ) =>
        /\ cpc[0] = "returned"
        /\ Joined(0)
        /\ closer[0] = "done"
        /\ ChannelClosed(0)
        /\ summary[0].reported

\* C14 happens: the bulk pass had a job, and a compilation spawned by the
\* watch loop is running after it
C14_Witness ==
    /\ mpc = "watching"
    /\ Len(queue[0]) = 1
    /\ summary[0].reported
    /\ summary[0].failed = 1
    /\ nruns = 1
    /\ cpc[1] = "collect"
    /\ queue[1][1].pc = "read"

\* C15: in a run of main whose root path does not exist, no task is ever
\* spawned and no summary is ever reported.
C15_InaccessibleRootAbortsBeforeDispatch ==
    (Len(args) = 2 /\ ~PathExists(args[2])) =>
        \A r \in RunIds :
            /\ Len(queue[r]) = 0
            /\ ~summary[r].reported

\* the jobs of run r whose two metrics updates are both done
Updated(r) == {i \in Jobs(r) : queue[r][i].outcome = "Ok"}

\* the jobs of run r inside the guarded block of compile_file
Updating(r) == {i \in Jobs(r) : queue[r][i].pc \in {"count", "time"}}

RECURSIVE SumTimers(_, _)
SumTimers(r, S) ==
    IF S = {} THEN 0
    ELSE LET i == CHOOSE j \in S : TRUE
         IN  queue[r][i].timer + SumTimers(r, S \ {i})

\* C16: at most one job is between its lock acquisition and its release,
\* and it is the holder of the lock; whenever the lock is free (so that a
\* reader of the metrics can take it), files_processed is the number of
\* jobs that have done their update and total_time is the sum of exactly
\* their elapsed times; while a job holds the lock the two fields differ
\* from that only by the holder's own half-done update.
C16_MetricsUpdatesAtomic ==
    \A r \in RunIds :
        /\ Cardinality(Updating(r)) <= 1
        /\ \A i \in Updating(r) : lock[r] = i
        /\ lock[r] = 0 =>
              /\ Updating(r) = {}
              /\ compiler[r].metrics.files_processed = Cardinality(Updated(r))
              /\ compiler[r].metrics.total_time = SumTimers(r, Updated(r))
        /\ lock[r] # 0 =>
              /\ Updating(r) = {lock[r]}
              /\ compiler[r].metrics.total_time = SumTimers(r, Updated(r))
              /\ compiler[r].metrics.files_processed =
                    Cardinality(Updated(r)) +
                    (IF queue[r][lock[r]].pc = "time" THEN 1 ELSE 0)
        /\ summary[r].reported =>
              /\ summary[r].processed = Cardinality(Updated(r))
              /\ summary[r].time = SumTimers(r, Updated(r))

\* C16 happens: one job has finished its update, a second holds the lock
\* with only the counter updated, and a third waits for the lock
C16_Witness ==
    /\ Len(queue[0]) = 3
    /\ queue[0][1].outcome = "Ok"
    /\ queue[0][2].pc = "time"
    /\ queue[0][3].pc = "lock"
    /\ lock[0] = 2
    /\ compiler[0].metrics.files_processed = 2
    /\ compiler[0].metrics.total_time = ParseTime + EmitTime + WriteTime

\* the CompilerMetrics instances of the process: Compile::Fn constructs a
\* Compiler, and with it a Mutex<CompilerMetrics>, in each of its calls
MetricsInstances == {r \in RunIds : cpc[r] # "idle"}

\* C17: the process has one metrics instance, and the metrics a watch-
\* triggered compilation reads are never below what the summary of the
\* bulk pass before it reported.
C17_SingleMonotoneMetrics ==
    /\ Cardinality(MetricsInstances) <= 1
    /\ \A r \in 1..MaxRuns :
          (summary[0].reported /\ summary[r].reported) =>
              /\ summary[r].processed >= summary[0].processed
              /\ summary[r].time >= summary[0].time

\* C18: a job whose read failed, whose parse panicked or whose emit failed
\* has called fs::write on its output path zero times; every job has called
\* it at most once, and only with the emitted module in hand.
C18_FailedJobWritesNothing ==
    \A r \in RunIds : \A i \in Jobs(r) :
        LET t == queue[r][i]
        IN  /\ t.outcome \in {"ReadErr", "Panic", "EmitErr"} => t.writes = 0
            /\ t.pc \in {"read", "parse", "emit", "write"} => t.writes = 0
            /\ t.writes <= 1
            /\ t.writes = 1 => t.emitted

\* C18 happens: of three finished jobs, one failed its read and one its
\* emit without a write, and one wrote its output once
C18_Witness ==
    /\ Len(queue[0]) = 3
    /\ queue[0][1].outcome = "ReadErr" /\ queue[0][1].writes = 0
    /\ queue[0][2].outcome = "EmitErr" /\ queue[0][2].writes = 0
    /\ queue[0][3].outcome = "Ok" /\ queue[0][3].writes = 1
    /\ \A i \in Jobs(0) : queue[0][i].pc = "done"

\* C19: the elapsed time a job adds to total_time is the time of its
\* parse, folds and emit only: the time of fs::write is not part of it.
C19_TimedIntervalExcludesWrite ==
    \A r \in RunIds :
        /\ \A i \in Jobs(r) :
              queue[r][i].pc \in {"lock", "count", "time"} =>
                  queue[r][i].timer = ParseTime + EmitTime
        /\ lock[r] = 0 =>
              compiler[r].metrics.total_time =
                  Cardinality(Updated(r)) * (ParseTime + EmitTime)

\* C20: when Compile::Fn is about to read the metrics for its summary,
\* every job has ended, none is inside or waiting for the guarded block,
\* the lock is free so that the read goes through at once, and
\* files_processed and successful_compilations both equal the number of
\* jobs whose compile_file returned Ok; the summary reports those values.
C20_SummaryAfterAllUpdates ==
    \A r \in RunIds :
        /\ cpc[r] = "summary" =>
              /\ Joined(r)
              /\ Updating(r) = {}
              /\ lock[r] = 0
              /\ ENABLED Summary(r)
              /\ compiler[r].metrics.files_processed = Cardinality(Updated(r))
              /\ successful_compilations[r] = Cardinality(Updated(r))
        /\ summary[r].reported =>
              /\ summary[r].processed = summary[r].successful
              /\ summary[r].successful = Cardinality(Updated(r))

\* C20 happens: the summary is reported after a dispatch in which one job
\* succeeded, one failed its emit and one panicked
C20_Witness ==
    /\ cpc[0] = "returned"
    /\ Len(queue[0]) = 3
    /\ queue[0][1].outcome = "Panic"
    /\ queue[0][2].outcome = "Ok"
    /\ queue[0][3].outcome = "EmitErr"
    /\ summary[0].reported
    /\ summary[0].processed = 1
    /\ summary[0].successful = 1
    /\ summary[0].failed = 1

=============================================================================
